---------------------------- MODULE Spec2Model ----------------------------
(***************************************************************************)
(* A model of the de-trending core of everest (src/everest/detrender.py):  *)
(* the regularization selection rule optimize_lambda, the iterative sigma  *)
(* clipping of get_outliers, and the construction / run / cross_validate   *)
(* sequence of a Detrender.                                                *)
(*                                                                         *)
(* Python indices are kept 0-based: a numpy array of length n is a         *)
(* function over 0..n-1.  Floating point scatter values are represented by *)
(* small naturals and the fractional tolerance leps by a rational          *)
(* <<numerator, denominator>>, so that every comparison of the code is     *)
(* exact integer arithmetic here.                                          *)
(***************************************************************************)
EXTENDS Integers, Sequences, FiniteSets, TLC

(***************************************************************************)
(* Bounds of the model.                                                    *)
(***************************************************************************)
\* rows of a validation matrix under SpecOL (= len(lambda_arr))
NLam == 2
\* columns of a validation matrix under SpecOL (= number of folds)
NFold == 2
\* number of cadences of the time series under SpecGO
NCad == 3
\* largest oiter under SpecGO
MaxOiter == 3
\* largest entry of a caller's lambda grid under SpecCtor
MaxLamVal == 2
\* longest caller's lambda grid under SpecCtor
MaxGridLen == 2
\* largest pld_order
MaxOrder == 2
\* number of cadences of the light curve that load_tpf loads under Spec
NRun == 5
\* largest giter under SpecGP
MaxGiter == 2
\* largest finite log-likelihood under SpecGP
MaxLL == 1
\* number of cadences under SpecCov
NCov == 2
\* number of calls of GetCovariance under SpecCov
MaxCalls == 2
\* largest number of unmasked cadences of a segment under SpecFolds
MaxN == 15
\* largest self.cdivs under SpecFolds
MaxCdivs == 4
\* the resample limit of GetKernelParams (100 at gp.py line 82)
MaxTries == 2

(***************************************************************************)
(* Special values.                                                         *)
(***************************************************************************)
\* Python None (indices and lambda values are >= 0)
None == -1

VARIABLES
  \* ---- optimize_lambda (SpecOL) ----
  validation,   \* the argument, by columns: validation[n][k] is the code's
                \* validation[k, n] (k = grid index, n = column).  Column n is
                \* drawn when the loop reads it, so DOMAIN validation = 0..n-1
                \* holds the columns read so far.
  leps,         \* self.leps as <<num, den>>
  ol_pc,        \* "loop" | "done" | "raised"
  ol_n,         \* loop variable n of `for n in range(validation.shape[1])`
  maxm,         \* local maxm
  minr,         \* local minr
  ol_ret,       \* value returned by the call (None until it returns)
  ol_prev,      \* value returned by the call of the previous PLD order
  \* ---- get_outliers (SpecGO) ----
  time,         \* self.time, a function over 0..len-1
  oiter,        \* self.oiter
  recursive,    \* self.recursive
  nanmask,      \* self.nanmask, an array of cadence indices
  badmask,      \* self.badmask
  transitmask,  \* self.transitmask
  outmask,      \* self.outmask
  go_list,      \* the local list `outmask` of get_outliers
  go_pc,        \* "idle" | "start" | "loop" | "fixed" | "maxiter" | "circle" | "extra"
  go_steps,     \* number of passes of the loop body (calls of self.compute())
  flux_fixed,   \* the last self.compute() returned the flux it started from
  go_extra,     \* outlier set of one more pass made after a fixed-point exit
  \* ---- Detrender.__init__ (SpecCtor) and Detrender.run (Spec) ----
  kwargs,       \* the keyword arguments of the constructor
  ct_pc,        \* "new" | "constructed" | "raised"
  exc,          \* the exception raised, "none" if none
  lambda_arr,   \* self.lambda_arr
  breakpoints,  \* self.breakpoints
  pld_order,    \* self.pld_order
  lam_idx,      \* self.lam_idx
  lam,          \* self.lam
  cdppv_arr,    \* self.cdppv_arr, by segment: "nan" or "val"
  cdivs,        \* self.cdivs
  optimize_gp,  \* self.optimize_gp
  kernel_params,\* self.kernel_params: None, else the number of update_gp calls
  pc,           \* where run is
  cv_b,         \* loop variable b of cross_validate
  cv_skipped,   \* segments skipped by this call of cross_validate
  cv_evaluated, \* segments for which this call evaluated cv_compute
  cv_terms,     \* the multipliers of the last sum at line 259, by order
  xticks,       \* whether the local xticks of cross_validate is assigned
  debug,        \* self.debug
  errfile,      \* whether exception_handler has written the .err file
  flagged,      \* the cadences that the last get_outliers found outlying
  cv_index,     \* the cadences cross_validate has used (m at line 352 and
                \* m1 at line 228) since the last get_outliers
  \* ---- gp.GetKernelParams (SpecGP) ----
  gp_args,      \* the arguments: giter, guess, and the white and amp that
                \* lines 59-60 estimate from the masked, clipped flux
  gp_bounds,    \* the local bounds
  gp_i,         \* loop variable i of `for i in range(giter)`
  llbest,       \* local llbest
  xbest,        \* local xbest
  gp_hist,      \* what fmin_l_bfgs_b returned, attempt by attempt
  gp_pc,        \* "idle" | "start" | "loop" | "done"
  \* ---- the starting point of an attempt, gp.py lines 76-84 ----
  rs_guess,     \* guess
  rs_bounds,    \* bounds
  rs_j,         \* loop variable j of `for j, b in enumerate(bounds)`, from 1
  rs_tries,     \* tries
  rs_iguess,    \* iguess
  rs_pc,        \* "idle" | "loop" | "handed" (to fmin_l_bfgs_b)
  \* ---- gp.GetCovariance (SpecCov) ----
  cov_in,       \* the arguments time and errors
  cov_calls,    \* the calls made: kernel_params and the matrix returned
  \* ---- the masks of cross_validate, line 379 (SpecFolds) ----
  fold_in,      \* len(time), self.cdivs and what Chunks does with a rest
  fold_masks,   \* the list masks
  fold_pc,      \* "idle" | "start" | "chunks" | "done" | "skipped"
  \* ---- saved models: load_model and save_model ----
  clobber,      \* self.clobber
  saved,        \* the .npz file of the model: "absent" | "good" |
                \* "corrupt" | "bad" (renamed to .npz.bad)
  parent_saved, \* the .npz file of the long cadence parent, likewise
  parent        \* the long cadence parent of a short cadence model:
                \* "none" | "raised" (in Detrender.__init__) | "unloadable"
                \* (load_model raised) | "loaded" | "ran"

olvars == <<validation, leps, ol_pc, ol_n, maxm, minr, ol_ret, ol_prev>>

govars == <<time, oiter, recursive, nanmask, badmask, transitmask, outmask, go_list, go_pc,
            go_steps, flux_fixed, go_extra>>

ctvars == <<kwargs, ct_pc, exc, lambda_arr, breakpoints, pld_order, lam_idx,
            lam, cdppv_arr>>
runvars == <<cdivs, optimize_gp, kernel_params, pc, cv_b, cv_skipped,
             cv_evaluated, cv_terms, xticks, debug, errfile, flagged,
             cv_index>>
rsvars == <<rs_guess, rs_bounds, rs_j, rs_tries, rs_iguess, rs_pc>>
gpvars == <<gp_args, gp_bounds, gp_i, llbest, xbest, gp_hist, gp_pc, rsvars>>
covvars == <<cov_in, cov_calls>>
foldvars == <<fold_in, fold_masks, fold_pc>>
fnvars == <<gpvars, covvars, foldvars>>
ldvars == <<clobber, saved, parent_saved, parent>>
vars == <<olvars, govars, ctvars, runvars, fnvars, ldvars>>

(***************************************************************************)
(* optimize_lambda (detrender.py 311-331)                                  *)
(***************************************************************************)
Rows == 0 .. (NLam - 1)
Cols == 0 .. (NFold - 1)
\* Representative scatter values: 0 (an exact fit, which makes the code
\* divide by zero) and three distinct positive levels.
ScatterVals == {0, 1, 2, 3}
Columns == [Rows -> ScatterVals]
\* the default leps = 0.05 and a coarse tolerance
LepsSet == { <<1, 20>>, <<1, 2>> }

Min2(a, b) == IF a <= b THEN a ELSE b

\* np.nanargmin(col): the first index of the smallest entry
nanargmin(col) ==
  CHOOSE k \in DOMAIN col :
    /\ \A j \in DOMAIN col : col[k] <= col[j]
    /\ \A j \in DOMAIN col : j < k => col[j] > col[k]

\* (x - xm) / xm <= leps, evaluated as numpy does: a zero divisor gives nan
\* or inf and the comparison is False
WithinTol(x, xm, eps) == xm > 0 /\ (x - xm) * eps[2] <= eps[1] * xm

\* np.where((col - col[m]) / col[m] <= leps)[0]
WhereWithin(col, m, eps) == {k \in DOMAIN col : WithinTol(col[k], col[m], eps)}

SetMax(S) == CHOOSE x \in S : \A y \in S : y <= x
SetMin(S) == CHOOSE x \in S : \A y \in S : x <= y

\* r = np.where(...)[0][-1]; the caller checks that the set is not empty
LastWithin_first(col, m, eps) == SetMin(WhereWithin(col, m, eps))
LastWithin(col, m, eps) == SetMax(WhereWithin(col, m, eps))

\* if m > maxm: maxm = m
UpdateMaxm_assign(mx, m) == m
UpdateMaxm_min(mx, m) == IF m < mx THEN m ELSE mx
UpdateMaxm(mx, m) == IF m > mx THEN m ELSE mx

\* if r < minr: minr = r
UpdateMinr_assign(mn, r) == r
UpdateMinr(mn, r) == IF r < mn THEN r ELSE mn

\* [0][-1] on an empty array raises IndexError
ColumnRaises(col, eps) == WhereWithin(col, nanargmin(col), eps) = {}

\* v with column c appended
AppendColumn(v, c) ==
  [n \in 0 .. Cardinality(DOMAIN v) |-> IF n \in DOMAIN v THEN v[n] ELSE c]

NoColumns == [n \in {} |-> 0]

\* the variables of get_outliers while it is not running
GOIdle ==
  /\ time = NoColumns
  /\ oiter = 0
  /\ recursive = FALSE
  /\ nanmask = <<>>
  /\ badmask = <<>>
  /\ transitmask = <<>>
  /\ outmask = <<>>
  /\ go_list = <<>>
  /\ go_pc = "idle"
  /\ go_steps = 0
  /\ flux_fixed = FALSE
  /\ go_extra = <<>>

\* a dictionary without keys, an object without entries
EmptyKwargs == [k \in {} |-> 0]

\* no constructor has run: the attributes do not exist yet
Unconstructed ==
  /\ lambda_arr = <<>>
  /\ breakpoints = <<>>
  /\ pld_order = None
  /\ lam_idx = None
  /\ lam = EmptyKwargs
  /\ cdppv_arr = EmptyKwargs

\* the run has not started: nothing of run or cross_validate exists
RunIdle ==
  /\ cdivs = 0
  /\ optimize_gp = FALSE
  /\ kernel_params = None
  /\ pc = "idle"
  /\ cv_b = 0
  /\ cv_skipped = {}
  /\ cv_evaluated = {}
  /\ cv_terms = <<>>
  /\ xticks = FALSE
  /\ debug = FALSE
  /\ errfile = FALSE
  /\ flagged = {}
  /\ cv_index = {}

CtorIdle ==
  /\ kwargs = EmptyKwargs
  /\ ct_pc = "idle"
  /\ exc = "none"
  /\ Unconstructed

\* no starting point is being drawn
StartIdle ==
  /\ rs_guess = <<>>
  /\ rs_bounds = <<>>
  /\ rs_j = 0
  /\ rs_tries = 0
  /\ rs_iguess = <<>>
  /\ rs_pc = "idle"

\* GetKernelParams is not running
GPIdle ==
  /\ StartIdle
  /\ gp_args = EmptyKwargs
  /\ gp_bounds = <<>>
  /\ gp_i = 0
  /\ llbest = 0
  /\ xbest = <<>>
  /\ gp_hist = <<>>
  /\ gp_pc = "idle"

\* GetCovariance has not been called
CovIdle ==
  /\ cov_in = EmptyKwargs
  /\ cov_calls = <<>>

\* no model is being constructed: no file is looked at
LoadIdle ==
  /\ clobber = FALSE
  /\ saved = "absent"
  /\ parent_saved = "absent"
  /\ parent = "none"

\* no masks have been made
FoldIdle ==
  /\ fold_in = EmptyKwargs
  /\ fold_masks = <<>>
  /\ fold_pc = "idle"

OLInit ==
  /\ GPIdle
  /\ CovIdle
  /\ FoldIdle
  /\ LoadIdle
  /\ GOIdle
  /\ CtorIdle
  /\ RunIdle
  /\ validation = NoColumns
  /\ leps \in LepsSet
  /\ ol_pc = "loop"
  /\ ol_n = 0
  /\ maxm = 0
  /\ minr = NLam
  /\ ol_ret = None
  /\ ol_prev = None

\* one pass of the loop body, for column ol_n
optimize_lambda_column ==
  /\ ol_pc = "loop"
  /\ ol_n < NFold
  /\ \E col \in Columns :
       LET m == nanargmin(col)
       IN  /\ validation' = AppendColumn(validation, col)
           /\ maxm' = UpdateMaxm(maxm, m)
           /\ IF ColumnRaises(col, leps)
              THEN /\ ol_pc' = "raised"
                   /\ UNCHANGED <<minr, ol_n>>
              ELSE /\ minr' = UpdateMinr(minr, LastWithin(col, m, leps))
                   /\ ol_n' = ol_n + 1
                   /\ ol_pc' = "loop"
  /\ UNCHANGED <<leps, ol_ret, ol_prev>>
  /\ UNCHANGED <<govars, ctvars, runvars, fnvars, ldvars>>

\* return min(maxm, minr)
optimize_lambda_return ==
  /\ ol_pc = "loop"
  /\ ol_n = NFold
  /\ ol_ret' = Min2(maxm, minr)
  /\ ol_pc' = "done"
  /\ UNCHANGED <<validation, leps, ol_n, maxm, minr, ol_prev>>
  /\ UNCHANGED <<govars, ctvars, runvars, fnvars, ldvars>>

\* the call for the same segment at the next PLD order (cross_validate 428,
\* run 947-952): a new validation matrix, and the locals start afresh
optimize_lambda_next_order ==
  /\ ol_pc = "done"
  /\ validation' = NoColumns
  /\ ol_prev' = ol_ret
  /\ ol_ret' = None
  /\ maxm' = 0
  /\ minr' = NLam
  /\ ol_n' = 0
  /\ ol_pc' = "loop"
  /\ UNCHANGED leps
  /\ UNCHANGED <<govars, ctvars, runvars, fnvars, ldvars>>

OLNext ==
  \/ optimize_lambda_column
  \/ optimize_lambda_return
  \/ optimize_lambda_next_order

SpecOL == OLInit /\ [][OLNext]_vars

(***************************************************************************)
(* get_outliers (detrender.py 267-309)                                     *)
(*                                                                         *)
(* numpy index arrays are sequences of 0-based cadence indices.            *)
(* self.compute() and SavGol() live in basecamp.py / math.py, which are    *)
(* not part of the sources at hand.  compute() is a deterministic function *)
(* of the masks, lam, kernel_params and, under the recursive              *)
(* configuration, of the current de-trended flux, which then is the        *)
(* divisor of the design matrix (docstring of `recursive`, 97-101).        *)
(* The flux itself is not represented: a pass of the loop body yields any  *)
(* set of flagged positions, except that a pass whose compute() has the    *)
(* inputs of the previous pass repeats its result.                         *)
(***************************************************************************)
\* self.time of a light curve of n cadences: strictly increasing time stamps
TimeSeries(n) == [i \in 0 .. (n - 1) |-> 2 * i + 5]

\* the cadence indices of the loaded light curve
Cad == DOMAIN time

Range(q) == {q[i] : i \in DOMAIN q}
Last(q) == q[Len(q)]

RECURSIVE SortedSeq(_)
SortedSeq(S) ==
  IF S = {} THEN <<>>
  ELSE LET x == SetMin(S) IN <<x>> \o SortedSeq(S \ {x})

\* the nanmask / badmask pairs a loaded light curve is given here
MaskConfigs == { << <<0>>, <<>> >>, << <<>>, <<1>> >> }

\* np.concatenate([self.nanmask, self.badmask])
Concatenate(a, b) == a \o b

\* an M that deletes nothing
Kept_all(nm, bm) == SortedSeq(Cad)
\* M = lambda x: np.delete(x, ...): the indices of x that are kept, in order
Kept(nm, bm) == SortedSeq(Cad \ Range(Concatenate(nm, bm)))

\* t = M(self.time), 0-based
MaskedTime(nm, bm) ==
  LET kept == Kept(nm, bm)
  IN  [i \in 0 .. (Len(kept) - 1) |-> time[kept[i + 1]]]

\* np.argmax(self.time == x): the first index whose time stamp is x (0 when
\* there is none)
ArgMaxEq(x) ==
  IF \E j \in Cad : time[j] = x
  THEN SetMin({j \in Cad : time[j] = x})
  ELSE 0

\* the positions in the masked arrays, taken as indices of the full arrays
Project_unprojected(inds, nm, bm) == inds
\* inds = np.array([np.argmax(self.time == t[i]) for i in inds])
Project(inds, nm, bm) ==
  LET t == MaskedTime(nm, bm)
  IN  [i \in DOMAIN inds |-> ArgMaxEq(t[inds[i]])]

\* np.where(...)[0] over the masked flux: any ascending array of positions
FlaggedPositions(nm, bm) ==
  {SortedSeq(S) : S \in SUBSET (0 .. (Len(Kept(nm, bm)) - 1))}

\* the outlier arrays a pass of the loop body can produce
OutlierArrays(nm, bm) == {Project(inds, nm, bm) : inds \in FlaggedPositions(nm, bm)}

\* a store that adds the new outliers to those self.outmask holds
StoreOutmask_merged(old, inds) == SortedSeq(Range(old) \cup Range(inds))
\* line 303: self.outmask = np.array(inds, dtype = int)
StoreOutmask(old, inds) == inds

\* outmask = [np.array([-1]), np.array(self.outmask)]
InitialList(om) == << <<-1>>, om >>

\* not np.array_equal(outmask[-2], outmask[-1])
LastTwoDiffer_skip(lst) ==
  IF Len(lst) < 3
  THEN lst[Len(lst) - 1] # lst[Len(lst)]
  ELSE lst[Len(lst) - 1] # lst[Len(lst)] /\ lst[Len(lst) - 2] # lst[Len(lst)]
LastTwoDiffer(lst) == lst[Len(lst) - 1] # lst[Len(lst)]

\* len(outmask) - 1 > self.oiter
TooManyIterations_late(lst, n) == Len(lst) - 2 > n
TooManyIterations(lst, n) == Len(lst) - 1 > n

\* np.any([np.array_equal(outmask[-1], i) for i in outmask[:-1]])
GoingInCircles_never(lst) == FALSE
GoingInCircles(lst) == \E i \in 1 .. (Len(lst) - 1) : lst[i] = lst[Len(lst)]

\* compute() is about to run on the inputs of the previous pass: the outlier
\* mask is the one the previous pass started from and, under recursive, so is
\* the flux
SameInputsAsLastPass ==
  /\ go_steps >= 1
  /\ go_list[Len(go_list) - 1] = go_list[Len(go_list)]
  /\ (~recursive \/ flux_fixed)

\* self.compute(); SavGol; clip; project: the pairs <<new outlier array,
\* whether compute() returned the flux it started from>> a pass can yield
PassOutcomes ==
  IF SameInputsAsLastPass
  THEN { <<Last(go_list), TRUE>> }
  ELSE { <<a, same>> \in OutlierArrays(nanmask, badmask) \X BOOLEAN :
           \* a flux that flags other positions is another flux
           (go_steps >= 1 /\ a # Last(go_list)) => ~same }

\* the variables of optimize_lambda while it is not running
OLIdle ==
  /\ validation = NoColumns
  /\ leps = <<1, 20>>
  /\ ol_pc = "idle"
  /\ ol_n = 0
  /\ maxm = 0
  /\ minr = 0
  /\ ol_ret = None
  /\ ol_prev = None

GOInit ==
  /\ GPIdle
  /\ CovIdle
  /\ FoldIdle
  /\ LoadIdle
  /\ OLIdle
  /\ CtorIdle
  /\ RunIdle
  /\ time = TimeSeries(NCad)
  /\ oiter \in 0 .. MaxOiter
  /\ recursive \in BOOLEAN
  /\ \E mc \in MaskConfigs : nanmask = mc[1] /\ badmask = mc[2]
  /\ transitmask = <<>>
  /\ outmask \in OutlierArrays(nanmask, badmask)
  /\ go_list = <<>>
  /\ go_pc = "start"
  /\ go_steps = 0
  /\ flux_fixed = FALSE
  /\ go_extra = <<>>

\* lines 273-277
get_outliers_start ==
  /\ go_pc = "start"
  /\ go_list' = InitialList(outmask)
  /\ go_pc' = "loop"
  /\ UNCHANGED <<time, oiter, recursive, nanmask, badmask, transitmask, outmask, go_steps,
                 flux_fixed, go_extra>>
  /\ UNCHANGED <<olvars, ctvars, runvars, fnvars, ldvars>>

\* the while condition fails: the last two arrays are equal
get_outliers_exit_fixed ==
  /\ go_pc = "loop"
  /\ ~LastTwoDiffer(go_list)
  /\ go_pc' = "fixed"
  /\ UNCHANGED <<time, oiter, recursive, nanmask, badmask, transitmask, outmask, go_list,
                 go_steps, flux_fixed, go_extra>>
  /\ UNCHANGED <<olvars, ctvars, runvars, fnvars, ldvars>>

\* lines 283-285
get_outliers_exit_maxiter ==
  /\ go_pc = "loop"
  /\ LastTwoDiffer(go_list)
  /\ TooManyIterations(go_list, oiter)
  /\ go_pc' = "maxiter"
  /\ UNCHANGED <<time, oiter, recursive, nanmask, badmask, transitmask, outmask, go_list,
                 go_steps, flux_fixed, go_extra>>
  /\ UNCHANGED <<olvars, ctvars, runvars, fnvars, ldvars>>

\* lines 288-290
get_outliers_exit_circle ==
  /\ go_pc = "loop"
  /\ LastTwoDiffer(go_list)
  /\ ~TooManyIterations(go_list, oiter)
  /\ GoingInCircles(go_list)
  /\ go_pc' = "circle"
  /\ UNCHANGED <<time, oiter, recursive, nanmask, badmask, transitmask, outmask, go_list,
                 go_steps, flux_fixed, go_extra>>
  /\ UNCHANGED <<olvars, ctvars, runvars, fnvars, ldvars>>

\* lines 293-306: one pass of the loop body
get_outliers_step ==
  /\ go_pc = "loop"
  /\ LastTwoDiffer(go_list)
  /\ ~TooManyIterations(go_list, oiter)
  /\ ~GoingInCircles(go_list)
  /\ \E o \in PassOutcomes :
       /\ outmask' = StoreOutmask(outmask, o[1])
       /\ go_list' = Append(go_list, o[1])
       /\ flux_fixed' = o[2]
  /\ go_steps' = go_steps + 1
  /\ UNCHANGED <<time, oiter, recursive, nanmask, badmask, transitmask, go_pc, go_extra>>
  /\ UNCHANGED <<olvars, ctvars, runvars, fnvars, ldvars>>

\* one more pass of the loop body (293-303) made from the state a
\* fixed-point exit leaves; its outlier array is kept in go_extra, and
\* flux_fixed goes on describing the last pass of the call
get_outliers_one_more ==
  /\ go_pc = "fixed"
  /\ \E o \in PassOutcomes : go_extra' = o[1]
  /\ go_pc' = "extra"
  /\ UNCHANGED <<time, oiter, recursive, nanmask, badmask, transitmask, outmask, go_list,
                 go_steps, flux_fixed>>
  /\ UNCHANGED <<olvars, ctvars, runvars, fnvars, ldvars>>

GONext ==
  \/ get_outliers_start
  \/ get_outliers_exit_fixed
  \/ get_outliers_exit_maxiter
  \/ get_outliers_exit_circle
  \/ get_outliers_step
  \/ get_outliers_one_more

SpecGO == GOInit /\ [][GONext]_vars

(***************************************************************************)
(* Detrender.__init__, Detrender.run and Detrender.cross_validate.         *)
(*                                                                         *)
(* Lambda values are small naturals; the regularization table lam is a     *)
(* function segment -> order -> cell with 0-based segments and orders, as  *)
(* in the code.  lambda_arr and breakpoints are sequences (1-based), so    *)
(* the code's lambda_arr[i] is lambda_arr[i + 1] here.                     *)
(***************************************************************************)

\* -np.inf in a cell of lam (line 357)
NegInf == -2
\* the 1e5 that fills column 0 of lam at construction (line 183)
InitLam == 100000
\* the sentinel appended to the breakpoints (lines 169-173)
Sentinel == 999999
\* default of the pld_order keyword (line 177)
DefaultPldOrder == 3
\* default of the lambda_arr keyword, 10 ** np.arange(0, 18, 0.5) (line 147):
\* an ascending grid of positive values, here cut to its first decades
DefaultLambdaArr == <<1, 10, 100>>

\* sequences over S of length 0 .. n
SeqsUpTo(S, n) == UNION {[1 .. k -> S] : k \in 0 .. n}

\* the lambda grids a caller may pass
GridInputs == SeqsUpTo(0 .. MaxLamVal, MaxGridLen)
\* the breakpoint lists a caller may pass or the mission may provide
BreakpointLists == { <<>>, <<1>>, <<0, 1>> }

\* the cadences a caller may pass
CadenceInputs == {"lc", "sc", "LC", "xx"}

\* a keyword that may be left out: 0 or 1 values
Optional(S) == { <<>> } \cup { <<x>> : x \in S }
Keyword(k, o) == IF o = <<>> THEN EmptyKwargs ELSE (k :> o[1])

\* the keyword dictionaries handed to the constructor
KwargsSet ==
  { Keyword("lambda_arr", la) @@ Keyword("pld_order", po)
      @@ Keyword("breakpoints", bk) @@ Keyword("cadence", ca) :
      la \in Optional(GridInputs), po \in Optional(0 .. MaxOrder),
      bk \in Optional(BreakpointLists), ca \in Optional(CadenceInputs) }

\* kwargs.get(key, default)
Get(kw, key, default) == IF key \in DOMAIN kw THEN kw[key] ELSE default

\* a normalisation that puts the 0 at the end of the grid instead
Normalize_append(grid) == IF grid[1] # 0 THEN grid \o <<0>> ELSE grid
\* lines 148-149: np.append(0, lambda_arr) when the first entry is not 0
Normalize(grid) == IF grid[1] # 0 THEN <<0>> \o grid ELSE grid

\* line 147-149; an empty grid raises IndexError at line 148
Detrender_lambda_arr(kw) == Normalize(Get(kw, "lambda_arr", DefaultLambdaArr))

\* lines 167-173: the caller's list, or the mission's, with the sentinel
Detrender_breakpoints(bkpts) == bkpts \o <<Sentinel>>

\* a table whose cells all start at 1e5
Detrender_lam_flat(nseg, order) ==
  [b \in 0 .. (nseg - 1) |-> [n \in 0 .. (order - 1) |-> InitLam]]
\* line 183: [[1e5] + [None ...] for b in range(nseg)]
Detrender_lam(nseg, order) ==
  [b \in 0 .. (nseg - 1) |->
     [n \in 0 .. (order - 1) |-> IF n = 0 THEN InitLam ELSE None]]

\* line 187: cdppv_arr filled with nan
Detrender_cdppv_arr(nseg) == [b \in 0 .. (nseg - 1) |-> "nan"]

\* Detrender.__init__ (lines 111-198) for the keywords kw, with the mission's
\* breakpoints mb: the attributes assigned and the exception raised, if any.
\* An empty grid raises at line 148, an order <= 0 at line 178.
Construct(kw, mb) ==
  LET grid  == Get(kw, "lambda_arr", DefaultLambdaArr)
      order == Get(kw, "pld_order", DefaultPldOrder)
      bk    == Detrender_breakpoints(Get(kw, "breakpoints", mb))
  IN  IF grid = <<>>
      THEN [exc |-> "IndexError", lambda_arr |-> grid, breakpoints |-> <<>>,
            pld_order |-> None, lam_idx |-> None, lam |-> EmptyKwargs,
            cdppv_arr |-> EmptyKwargs]
      ELSE IF ~(order > 0)
      THEN [exc |-> "AssertionError", lambda_arr |-> Detrender_lambda_arr(kw),
            breakpoints |-> bk, pld_order |-> None, lam_idx |-> None,
            lam |-> EmptyKwargs, cdppv_arr |-> EmptyKwargs]
      ELSE [exc |-> "none", lambda_arr |-> Detrender_lambda_arr(kw),
            breakpoints |-> bk, pld_order |-> order, lam_idx |-> -1,
            lam |-> Detrender_lam(Len(bk), order),
            cdppv_arr |-> Detrender_cdppv_arr(Len(bk))]

\* str.lower() on the cadences above
Lower(c) == IF c = "LC" THEN "lc" ELSE c

\* a check that lets every cadence through
ValidCadence_any(c) == TRUE
\* line 119: self.cadence in ['lc', 'sc']
ValidCadence(c) == c \in {"lc", "sc"}

\* kwargs.pop(key, None)
Pop(kw, key) == [k \in DOMAIN kw \ {key} |-> kw[k]]

\* the constructor raised e before it assigned any of the attributes here
Raised(e) ==
  [exc |-> e, lambda_arr |-> <<>>, breakpoints |-> <<>>, pld_order |-> None,
   lam_idx |-> None, lam |-> EmptyKwargs, cdppv_arr |-> EmptyKwargs]

\* the states of a saved model a constructor may find
FileStates == {"absent", "good", "corrupt"}

\* lc.kernel_params of a loaded long cadence parent, and the kernel_params
\* that a saved model of the model itself holds
ParentKernelParams == 5
SavedKernelParams == 9
\* a kernel_params a caller passes
CallerKernelParams == 7

\* a load_model that reads the file whatever clobber is
load_model_unclobbered(clob, isp, file) ==
  IF file = "good" THEN [ret |-> "True", file |-> file]
  ELSE [ret |-> IF isp THEN "raise" ELSE "False",
        file |-> IF file = "corrupt" THEN "bad" ELSE file]
\* a load_model that returns False for a parent as for any other model
load_model_lenient(clob, isp, file) ==
  IF clob THEN [ret |-> "False", file |-> file]
  ELSE IF file = "good" THEN [ret |-> "True", file |-> file]
  ELSE [ret |-> "False", file |-> IF file = "corrupt" THEN "bad" ELSE file]
\* load_model (lines 797-832) of a model with self.clobber = clob and
\* self.is_parent = isp whose .npz file is in the state file: what it
\* returns ("raise" for line 830) and the state it leaves the file in.  A
\* file that fails to load is renamed at line 827.
load_model(clob, isp, file) ==
  IF clob THEN [ret |-> "False", file |-> file]
  ELSE IF file = "good" THEN [ret |-> "True", file |-> file]
  ELSE [ret |-> IF isp THEN "raise" ELSE "False",
        file |-> IF file = "corrupt" THEN "bad" ELSE file]

\* rPLD.__init__ (lines 981-997) of the long cadence parent: kwargs without
\* cadence and clobber and with is_parent = True (lines 138-140), so cadence
\* is 'lc' and clobber False; ctor_exc is what its Detrender.__init__ raises
ParentInit(ctor_exc, file) ==
  IF ctor_exc # "none"
  THEN [state |-> "raised", file |-> file]
  ELSE LET l == load_model(FALSE, TRUE, file)
       IN  [state |-> IF l.ret = "True" THEN "loaded"
                      ELSE IF l.ret = "raise" THEN "unloadable" ELSE "ran",
            file |-> l.file]

\* lines 141-142: kwargs.update({'kernel_params': ..., 'optimize_gp': False})
ShortCadenceKwargs(kw, lc_kernel_params) ==
  ("kernel_params" :> Get(kw, "kernel_params", lc_kernel_params))
    @@ ("optimize_gp" :> FALSE) @@ kw

\* Detrender.__init__ from its first line: the cadence check (118-120), the
\* long cadence parent of a short cadence model (137-144), then the rest.
\* The parent is built by the same class with is_parent = True: its
\* constructor must not raise and its load_model must find a saved model
\* (parent_loads), else line 830 raises.
ConstructCadence(kw, mb, parent_loads) ==
  LET cadence == Lower(Get(kw, "cadence", "lc"))
  IN  IF ~ValidCadence(cadence)
      THEN Raised("ValueError")
      ELSE IF cadence = "sc"
      THEN LET lc == Construct(Pop(kw, "cadence"), mb)
           IN  IF lc.exc # "none" THEN Raised(lc.exc)
               ELSE IF ~parent_loads THEN Raised("Exception")
               ELSE Construct(kw, mb)
      ELSE Construct(kw, mb)

CtorInit ==
  /\ GPIdle
  /\ CovIdle
  /\ FoldIdle
  /\ OLIdle
  /\ GOIdle
  /\ RunIdle
  /\ kwargs \in KwargsSet
  /\ ct_pc = "new"
  /\ exc = "none"
  /\ Unconstructed
  /\ clobber = FALSE
  /\ saved \in FileStates \ {"corrupt"}
  /\ parent_saved \in FileStates \ {"corrupt"}
  /\ parent = "none"

\* default of the cdivs keyword (line 153)
DefaultCdivs == 3

\* Detrender.__init__ (lines 111-198).  self.clobber is read at line 122,
\* after the cadence check; cdivs, optimize_gp and kernel_params at lines
\* 153-156, after the grid, from the kwargs that lines 141-142 have updated
\* for a short cadence model.
Detrender_init ==
  /\ ct_pc = "new"
  /\ \E mb \in BreakpointLists :
       LET cadence == Lower(Get(kwargs, "cadence", "lc"))
           isSc    == ValidCadence(cadence) /\ cadence = "sc"
           p       == ParentInit(
                        Construct(Pop(Pop(kwargs, "cadence"), "clobber"), mb).exc,
                        parent_saved)
           kw      == IF isSc
                      THEN ShortCadenceKwargs(kwargs, ParentKernelParams)
                      ELSE kwargs
           c       == ConstructCadence(kwargs, mb, p.state \in {"loaded", "ran"})
           general == c.lambda_arr # <<>>
       IN  /\ exc' = c.exc
           /\ lambda_arr' = c.lambda_arr
           /\ breakpoints' = c.breakpoints
           /\ pld_order' = c.pld_order
           /\ lam_idx' = c.lam_idx
           /\ lam' = c.lam
           /\ cdppv_arr' = c.cdppv_arr
           /\ ct_pc' = IF c.exc = "none" THEN "constructed" ELSE "raised"
           /\ clobber' = IF ValidCadence(cadence)
                         THEN Get(kwargs, "clobber", FALSE) ELSE clobber
           /\ parent' = IF isSc THEN p.state ELSE parent
           /\ parent_saved' = IF isSc THEN p.file ELSE parent_saved
           /\ cdivs' = IF general THEN Get(kw, "cdivs", DefaultCdivs) ELSE cdivs
           /\ optimize_gp' = IF general THEN Get(kw, "optimize_gp", TRUE)
                             ELSE optimize_gp
           /\ kernel_params' = IF general THEN Get(kw, "kernel_params", None)
                               ELSE kernel_params
  /\ UNCHANGED <<kwargs, saved>>
  /\ UNCHANGED <<pc, cv_b, cv_skipped, cv_evaluated, cv_terms, xticks>>
  /\ UNCHANGED <<debug, errfile, flagged, cv_index>>
  /\ UNCHANGED <<olvars, govars, fnvars>>

\* rPLD.__init__ after Detrender.__init__ (lines 986-996): load_model loads
\* the saved model, whose attributes replace those of the constructor (of
\* these only kernel_params is followed), or _setup and run are entered
rPLD_init ==
  /\ ct_pc = "constructed"
  /\ LET l == load_model(clobber, FALSE, saved)
     IN  /\ saved' = l.file
         /\ IF l.ret = "True"
            THEN /\ ct_pc' = "loaded"
                 /\ pc' = pc
                 /\ kernel_params' = SavedKernelParams
            ELSE /\ ct_pc' = "running"
                 /\ pc' = "run"
                 /\ kernel_params' = kernel_params
  /\ UNCHANGED <<kwargs, exc, lambda_arr, breakpoints, pld_order, lam_idx,
                 lam, cdppv_arr>>
  /\ UNCHANGED <<cdivs, optimize_gp, cv_b, cv_skipped, cv_evaluated, cv_terms,
                 xticks>>
  /\ UNCHANGED <<debug, errfile, flagged, cv_index>>
  /\ UNCHANGED <<clobber, parent_saved, parent>>
  /\ UNCHANGED <<olvars, govars, fnvars>>

CtorNext ==
  \/ Detrender_init
  \/ rPLD_init

SpecCtor == CtorInit /\ [][CtorNext]_vars

(***************************************************************************)
(* Detrender.run (lines 921-973) with cross_validate (lines 333-510) and   *)
(* cv_compute (lines 253-265).                                             *)
(***************************************************************************)

\* the keyword dictionaries of the runs that are followed: an ascending grid
\* of positive values, a valid order, a list of breakpoints
RunGrids == { <<1>>, <<1, 2>> }
RunKwargsSet ==
  { Keyword("lambda_arr", <<g>>) @@ Keyword("pld_order", <<p>>)
      @@ Keyword("breakpoints", <<bk>>) :
      g \in RunGrids, p \in 1 .. MaxOrder, bk \in BreakpointLists }

\* self.cdivs (line 153)
CdivsSet == {1, 2}

\* data.nanmask and data.badmask as load_tpf receives them
LoadMasks == { << <<>>, <<>> >>, << <<0>>, <<>> >> }

\* line 174 and line 345: the number of segments
NSeg == Len(breakpoints)

\* the cadences of segment b: breakpoints[b] is the last index of chunk b
Segment(b) ==
  {i \in Cad : (b = 0 \/ i > breakpoints[b]) /\ i <= breakpoints[b + 1]}

\* self.mask: the union of the masks (transitmask is empty after load_tpf)
Mask == Range(outmask) \cup Range(badmask) \cup Range(nanmask)

\* self.get_masked_chunk(b): the unmasked cadences of segment b
get_masked_chunk(b) == SortedSeq(Segment(b) \ Mask)

\* line 355: not enough data to cross-validate
InsufficientData(m, cd) == Len(m) < 3 * cd

\* line 379: the number of masks that Chunks yields; with the at most
\* NRun + 1 cadences of a segment here it is cdivs
FoldCount(m, cd) == cd

\* optimize_lambda (lines 311-331) on a whole matrix v (by columns), from
\* column n on with the running maxm and minr; None when np.where finds
\* nothing and line 327 raises IndexError
RECURSIVE optimize_lambda_from(_, _, _, _, _)
optimize_lambda_from(v, eps, n, mx, mn) ==
  IF n = Cardinality(DOMAIN v)
  THEN Min2(mx, mn)
  ELSE IF ColumnRaises(v[n], eps)
       THEN None
       ELSE LET m == nanargmin(v[n])
            IN  optimize_lambda_from(v, eps, n + 1, UpdateMaxm(mx, m),
                                     UpdateMinr(mn, LastWithin(v[n], m, eps)))

\* lines 321-322: maxm = 0, minr = len(validation)
optimize_lambda(v, eps, nlam) == optimize_lambda_from(v, eps, 0, 0, nlam)

\* the validation matrices of nlam grid values and nfold masks
ValidationMatrices(nlam, nfold) ==
  [0 .. (nfold - 1) -> [0 .. (nlam - 1) -> ScatterVals]]

\* what line 428 can return (or None when it raises) for such matrices
OptimizeLambdaOutcomes(nlam, nfold, eps) ==
  { optimize_lambda(v, eps, nlam) : v \in ValidationMatrices(nlam, nfold) }

\* a write that always lands in the column of order 0
SetCell_first(table, b, n, v) == [table EXCEPT ![b][0] = v]
\* lines 357, 396, 432: self.lam[b][self.lam_idx] = v
SetCell(table, b, n, v) == [table EXCEPT ![b][n] = v]

\* a cv_precompute that stops below the current order
cv_precompute_below(order, idx) == [n \in 0 .. (order - 1) |-> idx > n]
\* lines 240-249: whether A[n] and B[n] are computed (not None) for the
\* orders n of range(self.pld_order): if self.lam_idx >= n
cv_precompute(order, idx) == [n \in 0 .. (order - 1) |-> idx >= n]

\* lines 259-260: l * a for every l of lam[b] that is not None; with a
\* None the product raises TypeError
cv_compute_raises(row, pre) == \E n \in DOMAIN row : row[n] # None /\ ~pre[n]

\* line 259: the multipliers l of the sum, [l for l in lam[b] if l is not None]
cv_compute_terms(row) == [n \in {k \in DOMAIN row : row[k] # None} |-> row[n]]

\* lines 259-261: A_total and B_total are finite iff every multiplier is
Finite(terms) == \A n \in DOMAIN terms : terms[n] # NegInf

\* lines 176-198 give the state after construction
RunInit ==
  /\ GPIdle
  /\ CovIdle
  /\ FoldIdle
  /\ LoadIdle
  /\ OLIdle
  /\ GOIdle
  /\ kwargs \in RunKwargsSet
  /\ ct_pc = "constructed"
  /\ LET c == Construct(kwargs, <<>>)
     IN  /\ exc = c.exc
         /\ lambda_arr = c.lambda_arr
         /\ breakpoints = c.breakpoints
         /\ pld_order = c.pld_order
         /\ lam_idx = c.lam_idx
         /\ lam = c.lam
         /\ cdppv_arr = c.cdppv_arr
  /\ cdivs \in CdivsSet
  /\ optimize_gp \in BOOLEAN
  /\ kernel_params = None
  /\ pc = "run"
  /\ cv_b = 0
  /\ cv_skipped = {}
  /\ cv_evaluated = {}
  /\ cv_terms = <<>>
  /\ xticks = FALSE
  /\ debug \in BOOLEAN
  /\ errfile = FALSE
  /\ flagged = {}
  /\ cv_index = {}

\* lines 929-944: load_tpf (755-795), init_kernel (907-919), the raw CDPPs
run_load ==
  /\ pc = "run"
  /\ time' = TimeSeries(NRun)
  /\ \E mc \in LoadMasks : nanmask' = mc[1] /\ badmask' = mc[2]
  /\ transitmask' = <<>>
  /\ outmask' = <<>>
  /\ breakpoints' = [breakpoints EXCEPT ![Len(breakpoints)] = NRun - 1]
  /\ kernel_params' = IF kernel_params = None THEN 0 ELSE kernel_params
  /\ cdppv_arr' = [b \in DOMAIN cdppv_arr |-> "val"]
  /\ pc' = "order"
  /\ UNCHANGED <<oiter, recursive, go_list, go_pc, go_steps, flux_fixed,
                 go_extra>>
  /\ UNCHANGED <<kwargs, ct_pc, exc, lambda_arr, pld_order, lam_idx, lam,
                 cdivs, optimize_gp, cv_b, cv_skipped, cv_evaluated, cv_terms,
                 xticks>>
  /\ UNCHANGED <<debug, errfile, flagged, cv_index>>
  /\ UNCHANGED <<olvars, fnvars, ldvars>>

\* an optimisation of the kernel at every order, the first included
NeedsUpdateGP_always(n, og) == og
\* line 950: if n > 0 and self.optimize_gp
NeedsUpdateGP(n, og) == n > 0 /\ og

\* an order loop that does not advance
NextOrder_same(n) == n
\* lines 947-948: the order of the next pass of the loop
NextOrder(n) == n + 1

\* lines 947-948: the next order, self.lam_idx += 1
run_next_order ==
  /\ pc = "order"
  /\ lam_idx + 1 < pld_order
  /\ lam_idx' = NextOrder(lam_idx)
  /\ pc' = "get_outliers"
  /\ UNCHANGED <<kwargs, ct_pc, exc, lambda_arr, breakpoints, pld_order, lam,
                 cdppv_arr, cdivs, optimize_gp, kernel_params, cv_b,
                 cv_skipped, cv_evaluated, cv_terms, xticks>>
  /\ UNCHANGED <<debug, errfile, flagged, cv_index>>
  /\ UNCHANGED <<olvars, govars, fnvars, ldvars>>

\* the cadences behind the positions inds of the masked arrays: position i
\* of M(x) is the i-th cadence that np.delete keeps
Flagged(inds, nm, bm) == {Kept(nm, bm)[inds[i] + 1] : i \in DOMAIN inds}

\* line 949: get_outliers (267-309), which leaves in outmask one of the
\* arrays its passes can produce; then the test of line 950
run_get_outliers ==
  /\ pc = "get_outliers"
  /\ \E inds \in FlaggedPositions(nanmask, badmask) :
       /\ outmask' = StoreOutmask(outmask, Project(inds, nanmask, badmask))
       /\ flagged' = Flagged(inds, nanmask, badmask)
  /\ cv_index' = {}
  /\ pc' = IF NeedsUpdateGP(lam_idx, optimize_gp)
           THEN "update_gp" ELSE "cross_validate"
  /\ UNCHANGED <<time, oiter, recursive, nanmask, badmask, transitmask, go_list, go_pc,
                 go_steps, flux_fixed, go_extra>>
  /\ UNCHANGED <<kwargs, ct_pc, exc, lambda_arr, breakpoints, pld_order,
                 lam_idx, lam, cdppv_arr, cdivs, optimize_gp, kernel_params,
                 cv_b, cv_skipped, cv_evaluated, cv_terms, xticks>>
  /\ UNCHANGED <<debug, errfile>>
  /\ UNCHANGED <<olvars, fnvars, ldvars>>

\* lines 950-951 and update_gp (896-905): new kernel parameters
run_update_gp ==
  /\ pc = "update_gp"
  /\ kernel_params' = kernel_params + 1
  /\ pc' = "cross_validate"
  /\ UNCHANGED <<kwargs, ct_pc, exc, lambda_arr, breakpoints, pld_order,
                 lam_idx, lam, cdppv_arr, cdivs, optimize_gp, cv_b,
                 cv_skipped, cv_evaluated, cv_terms, xticks>>
  /\ UNCHANGED <<debug, errfile, flagged, cv_index>>
  /\ UNCHANGED <<olvars, govars, fnvars, ldvars>>

\* line 952 and lines 343-345: cross_validate is entered, its locals are new
cross_validate_begin ==
  /\ pc = "cross_validate"
  /\ cv_b' = 0
  /\ cv_skipped' = {}
  /\ cv_evaluated' = {}
  /\ cv_terms' = <<>>
  /\ xticks' = FALSE
  /\ pc' = "cv_loop"
  /\ UNCHANGED <<kwargs, ct_pc, exc, lambda_arr, breakpoints, pld_order,
                 lam_idx, lam, cdppv_arr, cdivs, optimize_gp, kernel_params>>
  /\ UNCHANGED <<debug, errfile, flagged, cv_index>>
  /\ UNCHANGED <<olvars, govars, fnvars, ldvars>>

\* lines 354-359: the segment has too few cadences and is skipped
cross_validate_skip ==
  /\ pc = "cv_loop"
  /\ cv_b < NSeg
  /\ InsufficientData(get_masked_chunk(cv_b), cdivs)
  /\ cdppv_arr' = [cdppv_arr EXCEPT ![cv_b] = "nan"]
  /\ lam' = SetCell(lam, cv_b, lam_idx, NegInf)
  /\ cv_skipped' = cv_skipped \cup {cv_b}
  /\ cv_b' = cv_b + 1
  /\ UNCHANGED <<kwargs, ct_pc, exc, lambda_arr, breakpoints, pld_order,
                 lam_idx, cdivs, optimize_gp, kernel_params, pc, cv_evaluated,
                 cv_terms, xticks>>
  /\ UNCHANGED <<debug, errfile, flagged, cv_index>>
  /\ UNCHANGED <<olvars, govars, fnvars, ldvars>>

\* lines 361-471: the segment is cross-validated.  Line 396 writes the grid
\* value into the cell before each cv_compute; with a non-finite A_total
\* either np.linalg.solve raises at the first grid value or every scatter is
\* NaN and np.nanargmin raises at line 428, after the last grid value.
\* cv_compute gets the matrices of cv_precompute (lines 386-389).
cross_validate_segment ==
  /\ pc = "cv_loop"
  /\ cv_b < NSeg
  /\ ~InsufficientData(get_masked_chunk(cv_b), cdivs)
  /\ LET first == [lam[cv_b] EXCEPT ![lam_idx] = lambda_arr[1]]
         terms == cv_compute_terms(first)
         nlam  == Len(lambda_arr)
         nfold == FoldCount(get_masked_chunk(cv_b), cdivs)
     IN  /\ cv_terms' = terms
         /\ cv_evaluated' = cv_evaluated \cup {cv_b}
         /\ cv_index' = cv_index \cup Range(get_masked_chunk(cv_b))
         /\ IF cv_compute_raises(first, cv_precompute(pld_order, lam_idx))
            THEN /\ exc' = "TypeError"
                 /\ lam' = SetCell(lam, cv_b, lam_idx, lambda_arr[1])
                 /\ pc' = "except"
                 /\ UNCHANGED <<cdppv_arr, cv_b, xticks>>
            ELSE IF ~Finite(terms)
            THEN /\ \E e \in {"LinAlgError", "ValueError"} :
                      /\ exc' = e
                      /\ lam' = SetCell(lam, cv_b, lam_idx,
                                        IF e = "LinAlgError" THEN lambda_arr[1] ELSE lambda_arr[nlam])
                 /\ pc' = "except"
                 /\ UNCHANGED <<cdppv_arr, cv_b, xticks>>
            ELSE \E i \in OptimizeLambdaOutcomes(nlam, nfold, leps) :
                   IF i = None
                   THEN /\ exc' = "IndexError"
                        /\ lam' = SetCell(lam, cv_b, lam_idx, lambda_arr[nlam])
                        /\ pc' = "except"
                        /\ UNCHANGED <<cdppv_arr, cv_b, xticks>>
                   ELSE /\ lam' = SetCell(lam, cv_b, lam_idx, lambda_arr[i + 1])
                        /\ cdppv_arr' = [cdppv_arr EXCEPT ![cv_b] = "val"]
                        /\ xticks' = IF NSeg <= 2 THEN TRUE ELSE xticks
                        /\ cv_b' = cv_b + 1
                        /\ UNCHANGED <<exc, pc>>
  /\ UNCHANGED <<kwargs, ct_pc, lambda_arr, breakpoints, pld_order, lam_idx,
                 cdivs, optimize_gp, kernel_params, cv_skipped>>
  /\ UNCHANGED <<debug, errfile, flagged>>
  /\ UNCHANGED <<olvars, govars, fnvars, ldvars>>

\* lines 473-510: compute() and the tidy-up of the plot.  xticks is assigned
\* only at line 464, for a segment that was cross-validated; line 486 reads it.
cross_validate_finish ==
  /\ pc = "cv_loop"
  /\ cv_b = NSeg
  /\ IF NSeg <= 2 /\ ~xticks
     THEN exc' = "NameError" /\ pc' = "except"
     ELSE exc' = exc /\ pc' = "cv_done"
  /\ UNCHANGED <<kwargs, ct_pc, lambda_arr, breakpoints, pld_order, lam_idx,
                 lam, cdppv_arr, cdivs, optimize_gp, kernel_params, cv_b,
                 cv_skipped, cv_evaluated, cv_terms, xticks>>
  /\ UNCHANGED <<debug, errfile, flagged, cv_index>>
  /\ UNCHANGED <<olvars, govars, fnvars, ldvars>>

\* lines 953-958: the CDPPs of the order; nan * x stays nan
run_order_end ==
  /\ pc = "cv_done"
  /\ pc' = "order"
  /\ UNCHANGED <<kwargs, ct_pc, exc, lambda_arr, breakpoints, pld_order,
                 lam_idx, lam, cdppv_arr, cdivs, optimize_gp, kernel_params,
                 cv_b, cv_skipped, cv_evaluated, cv_terms, xticks>>
  /\ UNCHANGED <<debug, errfile, flagged, cv_index>>
  /\ UNCHANGED <<olvars, govars, fnvars, ldvars>>

\* lines 960-969: finalize, the plots, save_model (which writes the .npz
\* file), MakeFITS
run_save ==
  /\ pc = "order"
  /\ lam_idx + 1 = pld_order
  /\ pc' = "saved"
  /\ saved' = "good"
  /\ UNCHANGED <<kwargs, ct_pc, exc, lambda_arr, breakpoints, pld_order,
                 lam_idx, lam, cdppv_arr, cdivs, optimize_gp, kernel_params,
                 cv_b, cv_skipped, cv_evaluated, cv_terms, xticks>>
  /\ UNCHANGED <<debug, errfile, flagged, cv_index>>
  /\ UNCHANGED <<clobber, parent_saved, parent>>
  /\ UNCHANGED <<olvars, govars, fnvars>>

\* line 762: the mission's GetData fails and load_tpf raises
run_load_fails ==
  /\ pc = "run"
  /\ exc' = "IOError"
  /\ pc' = "except"
  /\ UNCHANGED <<kwargs, ct_pc, lambda_arr, breakpoints, pld_order, lam_idx,
                 lam, cdppv_arr, cdivs, optimize_gp, kernel_params, cv_b,
                 cv_skipped, cv_evaluated, cv_terms, xticks>>
  /\ UNCHANGED <<debug, errfile, flagged, cv_index>>
  /\ UNCHANGED <<olvars, govars, fnvars, ldvars>>

\* an exception handler that raises again whatever pdb is
Reraise_always(pdb) == TRUE
\* lines 893-894: if pdb: raise
Reraise(pdb) == pdb

\* lines 971-973 and exception_handler (869-894): the error is logged and
\* written to the .err file; it is raised again only under debug
run_except ==
  /\ pc = "except"
  /\ errfile' = TRUE
  /\ pc' = IF Reraise(debug) THEN "propagated" ELSE "handled"
  /\ UNCHANGED <<kwargs, ct_pc, exc, lambda_arr, breakpoints, pld_order,
                 lam_idx, lam, cdppv_arr, cdivs, optimize_gp, kernel_params,
                 cv_b, cv_skipped, cv_evaluated, cv_terms, xticks>>
  /\ UNCHANGED <<debug, flagged, cv_index>>
  /\ UNCHANGED <<olvars, govars, fnvars, ldvars>>

Next ==
  \/ run_load
  \/ run_load_fails
  \/ run_next_order
  \/ run_get_outliers
  \/ run_update_gp
  \/ cross_validate_begin
  \/ cross_validate_skip
  \/ cross_validate_segment
  \/ cross_validate_finish
  \/ run_order_end
  \/ run_save
  \/ run_except

Init == RunInit

Spec == Init /\ [][Next]_vars

\* ---------------------------------------------------------------------------
\* The constructor followed by the run it starts: rPLD(ID, **kwargs) with
\* the saved models of the target and of its long cadence parent on disk.
\* ---------------------------------------------------------------------------

\* the keywords of the calls followed from the constructor into run
LoadKwargsSet ==
  { ("lambda_arr" :> <<1>>) @@ ("cdivs" :> 1) @@ ("breakpoints" :> <<1>>)
      @@ Keyword("pld_order", po) @@ Keyword("cadence", ca)
      @@ Keyword("clobber", cl) @@ Keyword("kernel_params", kp) :
      po \in {<<0>>, <<2>>}, ca \in Optional({"sc", "xx"}),
      cl \in Optional({TRUE}), kp \in Optional({None, CallerKernelParams}) }

\* the parent's file matters to short cadence calls only
LoadInit ==
  /\ GPIdle
  /\ CovIdle
  /\ FoldIdle
  /\ OLIdle
  /\ GOIdle
  /\ RunIdle
  /\ kwargs \in LoadKwargsSet
  /\ ct_pc = "new"
  /\ exc = "none"
  /\ Unconstructed
  /\ clobber = FALSE
  /\ saved \in FileStates
  /\ parent_saved \in IF Get(kwargs, "cadence", "lc") = "sc"
                      THEN FileStates ELSE {"absent"}
  /\ parent = "none"

LoadNext == CtorNext \/ Next

SpecLoad == LoadInit /\ [][LoadNext]_vars

(***************************************************************************)
(* gp.GetKernelParams (gp.py lines 33-101).                                *)
(*                                                                         *)
(* Kernel parameters are in tenths, so that 0.1 * white is an integer:     *)
(* 10 is 1.0, 5 is 0.5, 300 is 30.0.  A log-likelihood is a natural, -inf  *)
(* (NegInf, below every natural) or NaN.                                   *)
(***************************************************************************)

\* a log-likelihood that is not a number
NaN == -3
\* tau = 30.0 (line 61), in tenths
DefaultTau == 300

\* the white and amp that lines 59-60 estimate from the flux, in tenths
FluxStats == {10, 20}
\* the guess argument: None (here <<>>) or a triple
GuessInputs == { <<>>, <<10, 10, 300>>, <<20, 10, 300>> }
\* the log-likelihoods -x[1] an attempt can end with
LLVals == {NegInf, NaN} \cup (0 .. MaxLL)

\* lines 62-63: if guess is None: guess = [white, amp, tau]
Guess(args) ==
  IF args.guess = <<>> THEN <<args.white, args.amp, DefaultTau>> ELSE args.guess

\* lines 66-68: the bounds, in tenths
Bounds(white, amp) ==
  << <<white \div 10, 10 * white>>, <<10, 10000 * amp>>, <<5, 1000>> >>

\* the points fmin_l_bfgs_b can return stay inside the bounds: the two corners
Candidates(b) ==
  { <<b[1][1], b[2][1], b[3][1]>>, <<b[1][2], b[2][2], b[3][2]>> }

\* an attempt replaces the best one also on a tie
Improves_ties(att, best) == att.ll # NaN /\ att.ll >= best
\* an attempt that did not converge is passed over
Improves_converged(att, best) == att.conv /\ att.ll # NaN /\ att.ll > best
\* line 98: if -x[1] > llbest (a comparison with NaN is False)
Improves(att, best) == att.ll # NaN /\ att.ll > best

GPInit ==
  /\ StartIdle
  /\ OLIdle
  /\ GOIdle
  /\ CtorIdle
  /\ RunIdle
  /\ CovIdle
  /\ FoldIdle
  /\ LoadIdle
  /\ gp_args \in [giter : 0 .. MaxGiter, guess : GuessInputs,
                  white : FluxStats, amp : FluxStats]
  /\ gp_bounds = <<>>
  /\ gp_i = 0
  /\ llbest = 0
  /\ xbest = <<>>
  /\ gp_hist = <<>>
  /\ gp_pc = "start"

\* lines 39-71: the mask and the clip, the guess, the bounds, llbest, xbest
GetKernelParams_start ==
  /\ gp_pc = "start"
  /\ gp_bounds' = Bounds(gp_args.white, gp_args.amp)
  /\ llbest' = NegInf
  /\ xbest' = Guess(gp_args)
  /\ gp_i' = 0
  /\ gp_pc' = "loop"
  /\ UNCHANGED <<gp_args, gp_hist>>
  /\ UNCHANGED rsvars
  /\ UNCHANGED <<olvars, govars, ctvars, runvars, covvars, foldvars, ldvars>>

\* lines 72-100: one attempt.  The minimiser returns a point inside the
\* bounds, its log-likelihood and whether it converged.
GetKernelParams_attempt ==
  /\ gp_pc = "loop"
  /\ gp_i < gp_args.giter
  /\ \E x \in Candidates(gp_bounds), ll \in LLVals, conv \in BOOLEAN :
       LET att == [x |-> x, ll |-> ll, conv |-> conv]
       IN  /\ gp_hist' = Append(gp_hist, att)
           /\ IF Improves(att, llbest)
              THEN llbest' = ll /\ xbest' = x
              ELSE UNCHANGED <<llbest, xbest>>
  /\ gp_i' = gp_i + 1
  /\ UNCHANGED <<gp_args, gp_bounds, gp_pc>>
  /\ UNCHANGED rsvars
  /\ UNCHANGED <<olvars, govars, ctvars, runvars, covvars, foldvars, ldvars>>

\* line 101: return xbest
GetKernelParams_return ==
  /\ gp_pc = "loop"
  /\ gp_i = gp_args.giter
  /\ gp_pc' = "done"
  /\ UNCHANGED <<gp_args, gp_bounds, gp_i, llbest, xbest, gp_hist>>
  /\ UNCHANGED rsvars
  /\ UNCHANGED <<olvars, govars, ctvars, runvars, covvars, foldvars, ldvars>>

GPNext ==
  \/ GetKernelParams_start
  \/ GetKernelParams_attempt
  \/ GetKernelParams_return

SpecGP == GPInit /\ [][GPNext]_vars

\* ---------------------------------------------------------------------------
\* The starting point of one attempt (gp.py lines 76-84), draw by draw.  The
\* values are finite numbers in tenths; the limit of 100 on tries is scaled
\* down to MaxTries.
\* ---------------------------------------------------------------------------
\* np.inf (line 76)
Inf == 9999999

\* (1 + 0.5 * np.random.randn()) * g: a multiple of g of either sign
Jitters(g) == {0 - g, g \div 2, g, 4 * g}

\* b[0] + np.random.random() * (b[1] - b[0]), np.random.random() in [0, 1)
Uniform(b) == {b[1], b[1] + (b[2] - b[1]) \div 2}

\* a test of the upper bound alone
Outside_upper(v, b) == v > b[2]
\* line 79: (iguess[j] < b[0]) or (iguess[j] > b[1])
Outside(v, b) == v < b[1] \/ v > b[2]

StartInit ==
  /\ OLIdle
  /\ GOIdle
  /\ CtorIdle
  /\ RunIdle
  /\ CovIdle
  /\ FoldIdle
  /\ LoadIdle
  /\ gp_args = EmptyKwargs
  /\ gp_bounds = <<>>
  /\ gp_i = 0
  /\ llbest = 0
  /\ xbest = <<>>
  /\ gp_hist = <<>>
  /\ gp_pc = "idle"
  /\ \E a \in [guess : GuessInputs, white : FluxStats, amp : FluxStats] :
       /\ rs_guess = Guess(a)
       /\ rs_bounds = Bounds(a.white, a.amp)
  /\ rs_j = 1
  /\ rs_tries = 0
  /\ rs_iguess = <<Inf, Inf, Inf>>
  /\ rs_pc = "loop"

\* lines 80-84: the body of the while loop, for a value outside the bounds
Randomize_draw ==
  /\ rs_pc = "loop"
  /\ rs_j <= 3
  /\ Outside(rs_iguess[rs_j], rs_bounds[rs_j])
  /\ IF rs_tries + 1 > MaxTries
     THEN /\ \E u \in Uniform(rs_bounds[rs_j]) :
               rs_iguess' = [rs_iguess EXCEPT ![rs_j] = u]
          /\ rs_j' = rs_j + 1
          /\ rs_tries' = 0
     ELSE /\ \E d \in Jitters(rs_guess[rs_j]) :
               rs_iguess' = [rs_iguess EXCEPT ![rs_j] = d]
          /\ rs_tries' = rs_tries + 1
          /\ rs_j' = rs_j
  /\ UNCHANGED <<rs_guess, rs_bounds, rs_pc>>
  /\ UNCHANGED <<gp_args, gp_bounds, gp_i, llbest, xbest, gp_hist, gp_pc>>
  /\ UNCHANGED <<olvars, govars, ctvars, runvars, covvars, foldvars, ldvars>>

\* lines 77-79: the while condition is false; the next parameter, tries = 0
Randomize_next ==
  /\ rs_pc = "loop"
  /\ rs_j <= 3
  /\ ~Outside(rs_iguess[rs_j], rs_bounds[rs_j])
  /\ rs_j' = rs_j + 1
  /\ rs_tries' = 0
  /\ UNCHANGED <<rs_guess, rs_bounds, rs_iguess, rs_pc>>
  /\ UNCHANGED <<gp_args, gp_bounds, gp_i, llbest, xbest, gp_hist, gp_pc>>
  /\ UNCHANGED <<olvars, govars, ctvars, runvars, covvars, foldvars, ldvars>>

\* line 87: fmin_l_bfgs_b(NegLnLike, iguess, ...)
Randomize_hand ==
  /\ rs_pc = "loop"
  /\ rs_j = 4
  /\ rs_pc' = "handed"
  /\ UNCHANGED <<rs_guess, rs_bounds, rs_j, rs_tries, rs_iguess>>
  /\ UNCHANGED <<gp_args, gp_bounds, gp_i, llbest, xbest, gp_hist, gp_pc>>
  /\ UNCHANGED <<olvars, govars, ctvars, runvars, covvars, foldvars, ldvars>>

StartNext == Randomize_draw \/ Randomize_next \/ Randomize_hand

SpecStart == StartInit /\ [][StartNext]_vars

(***************************************************************************)
(* gp.GetCovariance (gp.py lines 19-31).                                   *)
(*                                                                         *)
(* The Matern-3/2 kernel value is kept symbolic: amp ** 2 times a function *)
(* of tau ** 2 and of the squared time difference, so it is the triple of  *)
(* these three numbers.  An entry of K is the pair of its diagonal term    *)
(* and its kernel term.                                                    *)
(***************************************************************************)

\* kernel_params = [white, amp, tau]
KernelParamSet == [1 .. 3 -> {1, 2}]

\* the time arrays: evenly and unevenly sampled
CovTimes == { TimeSeries(NCov), [i \in 0 .. (NCov - 1) |-> 3 * i * i + 1] }
\* the error arrays
CovErrors == [0 .. (NCov - 1) -> {1, 2}]

\* line 27: amp ** 2 * Matern32Kernel(tau ** 2) at the times t1 and t2
Matern32(amp, tau, t1, t2) == <<amp * amp, tau * tau, (t1 - t2) * (t1 - t2)>>

\* a covariance that also carries the white term of the kernel
GetCovariance_white(kp, t, errors) ==
  [i \in DOMAIN t |-> [j \in DOMAIN t |->
     [diag |-> IF i = j
               THEN errors[i] * errors[i] + kp[1] * kp[1]
               ELSE 0,
      red  |-> Matern32(kp[2], kp[3], t[i], t[j])]]]
\* lines 24-31: K = np.diag(errors ** 2) + gp.get_matrix(time)
GetCovariance(kp, t, errors) ==
  [i \in DOMAIN t |-> [j \in DOMAIN t |->
     [diag |-> IF i = j THEN errors[i] * errors[i] ELSE 0,
      red  |-> Matern32(kp[2], kp[3], t[i], t[j])]]]

CovInit ==
  /\ OLIdle
  /\ GOIdle
  /\ CtorIdle
  /\ RunIdle
  /\ GPIdle
  /\ FoldIdle
  /\ LoadIdle
  /\ cov_in \in [time : CovTimes, errors : CovErrors]
  /\ cov_calls = <<>>

\* one call of GetCovariance on the same time and errors
GetCovariance_call ==
  /\ Len(cov_calls) < MaxCalls
  /\ \E kp \in KernelParamSet :
       cov_calls' = Append(cov_calls,
          [kernel_params |-> kp,
           K |-> GetCovariance(kp, cov_in.time, cov_in.errors)])
  /\ UNCHANGED cov_in
  /\ UNCHANGED <<olvars, govars, ctvars, runvars, gpvars, foldvars, ldvars>>

CovNext == GetCovariance_call

SpecCov == CovInit /\ [][CovNext]_vars

(***************************************************************************)
(* The masks of cross_validate (detrender.py lines 354-379).               *)
(*                                                                         *)
(* Chunks(l, n) yields consecutive chunks of l of size n.  What becomes of *)
(* the elements left over when n does not divide len(l) is not fixed by    *)
(* the text, so both ways are kept: they make a shorter chunk of their     *)
(* own, or they are merged into the last chunk.                            *)
(***************************************************************************)

\* what Chunks does with the elements left over
TailPolicies == {"own", "merged"}

\* line 379: the chunk size, len(time) // self.cdivs
ChunkSize(N, cd) == N \div cd

\* l[a:b] of l = np.arange(0, N), as a sequence
Slice(a, b) == [k \in 1 .. (b - a) |-> a + k - 1]

\* where the chunk of Chunks(l, n) that starts at i ends
ChunkEnd(N, n, i, tail) ==
  IF tail = "merged"
  THEN IF i + 2 * n <= N THEN i + n ELSE N
  ELSE Min2(i + n, N)

\* the index after the last one yielded so far
Yielded(masks) ==
  IF masks = <<>> THEN 0 ELSE masks[Len(masks)][Len(masks[Len(masks)])] + 1

FoldInit ==
  /\ OLIdle
  /\ GOIdle
  /\ CtorIdle
  /\ RunIdle
  /\ GPIdle
  /\ CovIdle
  /\ LoadIdle
  /\ fold_in \in [N : 0 .. MaxN, cdivs : 1 .. MaxCdivs, tail : TailPolicies]
  /\ fold_masks = <<>>
  /\ fold_pc = "start"

\* lines 355-359: not enough data, no masks are made
cross_validate_insufficient ==
  /\ fold_pc = "start"
  /\ fold_in.N < 3 * fold_in.cdivs
  /\ fold_pc' = "skipped"
  /\ UNCHANGED <<fold_in, fold_masks>>
  /\ UNCHANGED <<olvars, govars, ctvars, runvars, gpvars, covvars, ldvars>>

\* line 379: list(Chunks(...)) takes the next chunk from the generator
Chunks_yield ==
  /\ fold_pc \in {"start", "chunks"}
  /\ fold_in.N >= 3 * fold_in.cdivs
  /\ Yielded(fold_masks) < fold_in.N
  /\ LET i == Yielded(fold_masks)
         n == ChunkSize(fold_in.N, fold_in.cdivs)
     IN  fold_masks' =
           Append(fold_masks, Slice(i, ChunkEnd(fold_in.N, n, i, fold_in.tail)))
  /\ fold_pc' = "chunks"
  /\ UNCHANGED fold_in
  /\ UNCHANGED <<olvars, govars, ctvars, runvars, gpvars, covvars, ldvars>>

\* line 379: the generator is exhausted and masks is complete
Chunks_stop ==
  /\ fold_pc = "chunks"
  /\ Yielded(fold_masks) = fold_in.N
  /\ fold_pc' = "done"
  /\ UNCHANGED <<fold_in, fold_masks>>
  /\ UNCHANGED <<olvars, govars, ctvars, runvars, gpvars, covvars, ldvars>>

FoldNext == cross_validate_insufficient \/ Chunks_yield \/ Chunks_stop

SpecFolds == FoldInit /\ [][FoldNext]_vars

(***************************************************************************)
(* cross_validate, "Finalize" (detrender.py 418-429): the fold average of  *)
(* row k.  np.nanmean(validation[k]) is RowSum(v, k) / (number of folds);  *)
(* the comparisons below are between averages of the same matrix, so the   *)
(* common divisor is dropped.                                              *)
(***************************************************************************)
RECURSIVE RowSumUpTo(_, _, _)
RowSumUpTo(v, k, n) ==
  IF n = 0 THEN 0 ELSE v[n - 1][k] + RowSumUpTo(v, k, n - 1)

RowSum(v, k) == RowSumUpTo(v, k, Cardinality(DOMAIN v))

(***************************************************************************)
(* Properties of optimize_lambda (checked under SpecOL)                    *)
(***************************************************************************)
\* the quantities the claims speak of, for the matrix of the current call
ColMinIdx(n) == nanargmin(validation[n])
ColMinVal(n) == validation[n][ColMinIdx(n)]
ColTolIdx(n) ==
  SetMax({k \in Rows : WithinTol(validation[n][k], ColMinVal(n), leps)})
AllColumnsWithin(j) ==
  \A n \in DOMAIN validation : WithinTol(validation[n][j], ColMinVal(n), leps)
LargestColMinIdx == SetMax({ColMinIdx(n) : n \in DOMAIN validation})
SmallestColMinIdx == SetMin({ColMinIdx(n) : n \in DOMAIN validation})
Returned == ol_pc = "done"

C2_FavoursLargerWithinTolerance ==
  Returned => ~ \E j \in Rows : j > ol_ret /\ AllColumnsWithin(j)

\* C2 (amended): optimize_lambda never returns an index i when a larger
\* index j, not above the largest column optimum, is within the tolerance of
\* the column minimum in every column.
C2_FavoursLargerUpToMaxm ==
  Returned =>
    ~ \E j \in Rows :
        j > ol_ret /\ j <= LargestColMinIdx /\ AllColumnsWithin(j)

\* two indices are within the tolerance in every column and the larger one
\* was returned
C2_Witness ==
  /\ Returned
  /\ ol_ret > 0
  /\ AllColumnsWithin(ol_ret)
  /\ \E i \in Rows : i < ol_ret /\ AllColumnsWithin(i)

\* C3 (as stated): the returned index is never smaller than the
\* minimum-scatter index m of any column.
C3_NeverBelowAnyColumnOptimum ==
  Returned => \A n \in DOMAIN validation : ol_ret >= ColMinIdx(n)

\* C3 (amended): the returned index is never smaller than the smallest of
\* the columns' minimum-scatter indices, and it is smaller than a column's m
\* only when the tolerance bound r of some column lies below that m.
C3_BelowOptimumOnlyWhenCapped ==
  Returned =>
    /\ ol_ret >= SmallestColMinIdx
    /\ \A n \in DOMAIN validation :
         ol_ret < ColMinIdx(n) =>
           \E n2 \in DOMAIN validation : ColTolIdx(n2) < ColMinIdx(n)

\* the cap has acted: the returned index is below some column's optimum
C3_Witness ==
  Returned /\ \E n \in DOMAIN validation : ol_ret < ColMinIdx(n)

\* C4: for a matrix of positive entries, the fold-averaged validation
\* scatter at the selected index exceeds the minimum of the fold-averaged
\* validation scatter over the grid by at most the fraction leps.
C4_SelectedWithinLepsOfMinimum ==
  (Returned /\ \A n \in DOMAIN validation : \A k \in Rows : validation[n][k] > 0)
    => \A k \in Rows :
         (RowSum(validation, ol_ret) - RowSum(validation, k)) * leps[2]
           <= leps[1] * RowSum(validation, k)

(***************************************************************************)
(* Properties of get_outliers (checked under SpecGO)                       *)
(***************************************************************************)
\* the newest array of the list equals one the call held before it (the
\* array the call started with is go_list[2])
Repeats(lst) == \E i \in 2 .. (Len(lst) - 1) : lst[i] = lst[Len(lst)]

\* C6: in one call of get_outliers the number of passes of the loop body
\* never exceeds oiter.
C6_StepsWithinOiter == go_steps <= oiter

\* the cap has stopped a call after exactly oiter passes
C6_Witness == go_pc = "maxiter" /\ oiter >= 2 /\ go_steps = oiter

C8_RepeatStopsLoop ==
  [][ (go_pc = "loop" /\ go_steps >= 1 /\ Repeats(go_list))
        => /\ go_pc' \in {"fixed", "maxiter", "circle"}
           /\ go_steps' = go_steps
           /\ outmask = Last(go_list)
           /\ outmask' = outmask ]_vars

\* the loop was left because the newest array equals an earlier one that is
\* not the previous one
C8_Witness ==
  /\ go_pc = "circle"
  /\ go_steps >= 2
  /\ Repeats(go_list)
  /\ outmask = Last(go_list)


(***************************************************************************)
(* Properties of Detrender.__init__ (checked under SpecCtor).              *)
(***************************************************************************)

\* C5: after construction lambda_arr[0] == 0 for every grid the caller
\* supplies: a grid whose first entry is not 0 has 0 prepended and its
\* entries kept in order, a grid that starts with 0 is left unchanged.
C5_GridStartsWithZero ==
  (ct_pc = "constructed" /\ "lambda_arr" \in DOMAIN kwargs) =>
     LET grid == kwargs["lambda_arr"]
     IN  /\ lambda_arr[1] = 0
         /\ (grid[1] # 0 => lambda_arr = <<0>> \o grid)
         /\ (grid[1] = 0 => lambda_arr = grid)

\* a grid of two entries that does not start with 0 has been normalised
C5_Witness ==
  /\ ct_pc = "constructed"
  /\ "lambda_arr" \in DOMAIN kwargs
  /\ Len(kwargs["lambda_arr"]) = 2
  /\ kwargs["lambda_arr"][1] # 0
  /\ kwargs["lambda_arr"][2] = 0
  /\ lambda_arr = <<0>> \o kwargs["lambda_arr"]

\* the keywords name a cadence other than lc or sc, or an order <= 0
InvalidKwargs ==
  \/ Lower(Get(kwargs, "cadence", "lc")) \notin {"lc", "sc"}
  \/ Get(kwargs, "pld_order", DefaultPldOrder) <= 0

\* C14: a constructor called with a cadence other than 'lc' or 'sc', or with
\* pld_order <= 0, raises during construction, before load_tpf,
\* get_outliers, update_gp, cross_validate or any other step of run starts.
C14_InvalidKwargsFailFast ==
  (InvalidKwargs /\ ct_pc # "new") =>
     /\ ct_pc = "raised"
     /\ exc # "none"
     /\ pc = "idle"
     /\ time = NoColumns

\* a short cadence model with order 0: the parent's constructor raised
C14_Witness ==
  /\ ct_pc = "raised"
  /\ "cadence" \in DOMAIN kwargs
  /\ kwargs["cadence"] = "sc"
  /\ Get(kwargs, "pld_order", DefaultPldOrder) = 0
  /\ exc = "AssertionError"

(***************************************************************************)
(* Properties of cross_validate and cv_compute (checked under Spec).       *)
(***************************************************************************)

\* C9: when cross_validate has gone through the segments and skipped some for
\* having fewer than 3 * cdivs unmasked cadences, each skipped segment has
\* lam[b][lam_idx] = -inf and cdppv_arr[b] = NaN and no regression was
\* evaluated for it, every other segment was cross-validated, and the call
\* has not raised, also when every segment was skipped.
C9_SkippedSegmentsHandledLocally ==
  (pc \in {"cv_done", "except"} /\ cv_b = NSeg /\ cv_skipped # {}) =>
     /\ \A b \in cv_skipped :
          /\ lam[b][lam_idx] = NegInf
          /\ cdppv_arr[b] = "nan"
          /\ b \notin cv_evaluated
     /\ \A b \in (0 .. (NSeg - 1)) \ cv_skipped : b \in cv_evaluated
     /\ exc = "none"

\* C10: a cell equal to -inf adds no term to the sums of cv_compute, so a
\* segment skipped at an earlier order and cross-validated at a later one is
\* solved with finite matrices and the solve does not fail.
C10_NegInfCellAddsNoTerm ==
  /\ \A n \in DOMAIN cv_terms : cv_terms[n] # NegInf
  /\ exc \notin {"LinAlgError", "ValueError"}


(***************************************************************************)
(* Properties of Detrender.run (checked under Spec).                       *)
(***************************************************************************)

\* the cross-validation of the current order has finished
OrderFinished == pc \in {"cv_done", "order", "saved"}

\* C11: the table lam is append-only over the order loop: a cell lam[b][k]
\* changes only in a step of cross_validate taken while lam_idx = k, and once
\* the cross-validation of order k has finished no step (get_outliers,
\* update_gp, the cross-validation of later orders) changes it again.
C11_TableAppendOnly ==
  [][ /\ DOMAIN lam' = DOMAIN lam
      /\ \A b \in DOMAIN lam : \A k \in DOMAIN lam[b] :
            lam'[b][k] # lam[b][k] =>
              /\ pc = "cv_loop"
              /\ k = lam_idx
              /\ lam_idx' = lam_idx
      /\ OrderFinished => lam' = lam
      /\ lam_idx' >= lam_idx ]_vars

\* both orders of segment 0 were cross-validated and hold different values
C11_Witness ==
  /\ pc = "cv_done"
  /\ lam_idx = 1
  /\ lam[0][0] = 1
  /\ lam[0][1] = 0


\* the cross-validation of order 0 has left its value in every segment
FirstOrderCrossValidated == \A b \in DOMAIN lam : lam[b][0] # InitLam

\* C12: for each order n = 0 .. pld_order - 1 run increments lam_idx, then
\* calls get_outliers, then update_gp (only when n > 0 and optimize_gp), then
\* cross_validate; update_gp never runs before the cross-validation of the
\* first order has finished, and finalize runs only after the
\* cross-validation of the last order.
C12_StepsInOrder ==
  [][ /\ lam_idx' # lam_idx =>
            pc = "order" /\ lam_idx' = lam_idx + 1 /\ pc' = "get_outliers"
      /\ outmask' # outmask => pc \in {"run", "get_outliers"}
      /\ pc = "get_outliers" =>
            pc' = IF lam_idx > 0 /\ optimize_gp
                  THEN "update_gp" ELSE "cross_validate"
      /\ kernel_params' # kernel_params => pc \in {"run", "update_gp"}
      /\ pc = "update_gp" =>
            /\ lam_idx > 0
            /\ optimize_gp
            /\ FirstOrderCrossValidated
            /\ pc' = "cross_validate"
      /\ pc' = "cross_validate" => pc \in {"get_outliers", "update_gp"}
      /\ lam' # lam => pc = "cv_loop"
      /\ pc' = "order" => pc \in {"run", "cv_done"}
      /\ pc' = "saved" =>
            pc = "order" /\ lam_idx = pld_order - 1 /\ cv_b = NSeg ]_vars

\* the kernel is being optimised at the second order
C12_Witness ==
  /\ pc = "update_gp"
  /\ lam_idx = 1
  /\ optimize_gp
  /\ FirstOrderCrossValidated


\* C13: when a step of run raises, exception_handler records the failure,
\* none of the later steps (remaining orders, finalize, save_model, MakeFITS)
\* is executed, and with debug False run returns normally instead of
\* propagating the exception to the caller.
C13_FailureRecordedAndContained ==
  [][ /\ exc' # exc => pc' = "except"
      /\ pc = "except" =>
            /\ errfile'
            /\ ~debug => pc' = "handled"
            /\ pc' \in {"handled", "propagated"}
            /\ <<lam_idx, lam, outmask, kernel_params, cdppv_arr>>' =
                 <<lam_idx, lam, outmask, kernel_params, cdppv_arr>>
      /\ pc' = "handled" => pc = "except" /\ exc # "none"
      /\ pc' = "saved" => exc = "none"
      /\ pc \notin {"handled", "propagated"} ]_vars

\* a failure in the cross-validation of the second order was handled
C13_Witness ==
  /\ pc = "handled"
  /\ ~debug
  /\ errfile
  /\ exc = "IndexError"
  /\ lam_idx = 1
  /\ pld_order = 2


(***************************************************************************)
(* Properties of GetKernelParams (checked under SpecGP).                   *)
(***************************************************************************)

\* the attempts whose log-likelihood is above -inf
Scored == {k \in DOMAIN gp_hist : gp_hist[k].ll \notin {NegInf, NaN}}

\* attempt k has the highest log-likelihood and is the earliest that has it
EarliestBest(k) ==
  /\ k \in Scored
  /\ \A j \in Scored : gp_hist[j].ll <= gp_hist[k].ll
  /\ \A j \in Scored : j < k => gp_hist[j].ll < gp_hist[k].ll

\* C15: GetKernelParams returns the result of the attempt with the highest
\* log-likelihood among its giter attempts, the earliest one on ties; the
\* initial guess is returned unchanged only when no attempt produced a
\* log-likelihood above -inf.
C15_ReturnsEarliestBest ==
  gp_pc = "done" =>
     IF Scored = {}
     THEN xbest = Guess(gp_args) /\ llbest = NegInf
     ELSE \E k \in Scored :
            EarliestBest(k) /\ xbest = gp_hist[k].x /\ llbest = gp_hist[k].ll

\* two attempts tie at different points and the first is returned
C15_Witness ==
  /\ gp_pc = "done"
  /\ Len(gp_hist) = 2
  /\ gp_hist[1].ll = 1
  /\ gp_hist[2].ll = 1
  /\ gp_hist[1].x # gp_hist[2].x
  /\ xbest = gp_hist[1].x

\* C16: GetKernelParams makes exactly giter attempts and returns a triple
\* after the last whether or not any attempt converged: an attempt that did
\* not converge is not an error and competes like a converged one.
C16_NonConvergedCompetes ==
  gp_pc = "done" =>
     /\ Len(gp_hist) = gp_args.giter
     /\ Len(xbest) = 3
     /\ \A k \in Scored : gp_hist[k].ll <= llbest
     /\ \A k \in Scored :
          (~gp_hist[k].conv /\ \A j \in Scored \ {k} : gp_hist[j].ll < gp_hist[k].ll)
             => xbest = gp_hist[k].x

\* no attempt converged and the second, better one is returned
C16_Witness ==
  /\ gp_pc = "done"
  /\ Len(gp_hist) = 2
  /\ \A k \in DOMAIN gp_hist : ~gp_hist[k].conv
  /\ gp_hist[1].ll = 0
  /\ gp_hist[2].ll = 1
  /\ gp_hist[1].x # gp_hist[2].x
  /\ xbest = gp_hist[2].x

\* C17: the bounds of every attempt come from the guess: white in
\* [0.1 * guess_white, 10 * guess_white], amp in [1, 10000 * guess_amp], tau
\* in [0.5, 100], also when the caller supplies the guess.
C17_BoundsFromGuess ==
  gp_pc \in {"loop", "done"} =>
     gp_bounds = << <<Guess(gp_args)[1] \div 10, 10 * Guess(gp_args)[1]>>,
                    <<10, 10000 * Guess(gp_args)[2]>>,
                    <<5, 1000>> >>


(***************************************************************************)
(* Properties of GetCovariance (checked under SpecCov).                    *)
(***************************************************************************)

\* C18: GetCovariance returns K with K[i][j] = errors[i]^2 when i = j, plus
\* the red-noise kernel value k(time[i], time[j]; amp, tau), and K does not
\* depend on white: two triples that differ only in white give the same K
\* for the same time and errors.
C18_CovarianceWithoutWhite ==
  /\ \A c \in DOMAIN cov_calls :
       \A i \in DOMAIN cov_in.time : \A j \in DOMAIN cov_in.time :
          /\ cov_calls[c].K[i][j].diag =
               IF i = j THEN cov_in.errors[i] * cov_in.errors[i] ELSE 0
          /\ cov_calls[c].K[i][j].red =
               Matern32(cov_calls[c].kernel_params[2],
                        cov_calls[c].kernel_params[3],
                        cov_in.time[i], cov_in.time[j])
  /\ \A c \in DOMAIN cov_calls : \A d \in DOMAIN cov_calls :
       (/\ cov_calls[c].kernel_params[2] = cov_calls[d].kernel_params[2]
        /\ cov_calls[c].kernel_params[3] = cov_calls[d].kernel_params[3])
          => cov_calls[c].K = cov_calls[d].K

\* two calls that differ only in white returned the same matrix
C18_Witness ==
  /\ Len(cov_calls) = 2
  /\ cov_calls[1].kernel_params = <<1, 2, 1>>
  /\ cov_calls[2].kernel_params = <<2, 2, 1>>
  /\ cov_calls[1].K = cov_calls[2].K


\* C19: after get_outliers, no cadence of the outlier mask, of the NaN mask
\* or of the bad mask, and no cadence that get_outliers found outlying, is
\* in the index set that cross_validate and cv_precompute use for any
\* segment (the transit mask is empty throughout a run).
C19_FlaggedCadencesExcluded ==
  cv_index \cap (flagged \cup Range(outmask) \cup Range(nanmask)
                          \cup Range(badmask)) = {}

\* an order was cross-validated with a NaN cadence and an outlier masked
C19_Witness ==
  /\ pc = "cv_done"
  /\ nanmask = <<0>>
  /\ flagged = {1}
  /\ cv_index # {}


(***************************************************************************)
(* Properties of the masks of cross_validate (checked under SpecFolds).    *)
(***************************************************************************)

\* C20: for a segment with N >= 3 * cdivs unmasked cadences, cross_validate
\* uses exactly cdivs validation folds; each fold is a contiguous index
\* range, the folds are pairwise disjoint and together they cover all N
\* cadences of the segment.
C20_ExactlyCdivsFolds ==
  (fold_pc = "done" /\ fold_in.N >= 3 * fold_in.cdivs) =>
    /\ Len(fold_masks) = fold_in.cdivs
    /\ \A f \in DOMAIN fold_masks :
         \A k \in 1 .. (Len(fold_masks[f]) - 1) :
            fold_masks[f][k + 1] = fold_masks[f][k] + 1
    /\ \A f \in DOMAIN fold_masks : \A g \in DOMAIN fold_masks :
         f # g => Range(fold_masks[f]) \cap Range(fold_masks[g]) = {}
    /\ UNION {Range(fold_masks[f]) : f \in DOMAIN fold_masks}
         = 0 .. (fold_in.N - 1)


(***************************************************************************)
(* Termination of run.  The program is sequential: whenever a step is      *)
(* possible the next one is taken, which is weak fairness of the           *)
(* next-state relation.  get_outliers and GetKernelParams are single steps *)
(* here; their loops are bounded by oiter and giter (SpecGO, SpecGP).      *)
(***************************************************************************)

SpecTerm == Init /\ [][Next]_vars /\ WF_vars(Next)

\* run is over: save_model and MakeFITS are done, or the handler has run
RunEnded == pc \in {"saved", "handled", "propagated"}

\* the rank of a position of run within one pass of the order loop, each
\* step of the pass leading to a lower one
StageRank ==
  CASE pc \in {"saved", "handled", "propagated"} -> 0
    [] pc = "except"         -> 1
    [] pc = "order"          -> 2
    [] pc = "run"            -> 3
    [] pc = "cv_done"        -> 3
    [] pc = "cv_loop"        -> 4 + (NSeg - cv_b)
    [] pc = "cross_validate" -> 5 + NSeg
    [] pc = "update_gp"      -> 6 + NSeg
    [] pc = "get_outliers"   -> 7 + NSeg

\* a bound on the steps run can still take: the passes of the order loop
\* that have not begun, each of at most 8 + NSeg steps, and the rest of the
\* present one
RunVariant == (pld_order - 1 - lam_idx) * (8 + NSeg) + StageRank

\* run does not stop half-way: a step is possible until the end is reached
RunNeverBlocks == ~RunEnded => ENABLED Next

ValidKwargs ==
  /\ ValidCadence(Lower(Get(kwargs, "cadence", "lc")))
  /\ Construct(kwargs, <<>>).exc = "none"

\* C22 as stated: with clobber True run is always executed: once the
\* construction of a model with valid keywords and clobber = True is over,
\* its run has been entered.
C22_ClobberAlwaysRuns ==
  (ValidKwargs /\ Get(kwargs, "clobber", FALSE) /\ ct_pc \notin {"new", "constructed"})
    => ct_pc = "running"

\* C22: with clobber False and a loadable saved model the constructor loads
\* the saved model and no step of _setup or run is ever taken; with clobber
\* True load_model returns False and leaves the file alone, the saved model
\* is never loaded, and run is entered whenever Detrender.__init__ has
\* returned without raising.
C22_ClobberDecidesLoadOrRun ==
  /\ [](ct_pc = "constructed" => clobber = Get(kwargs, "clobber", FALSE))
  /\ [](ct_pc = "loaded" => (pc = "idle" /\ ~clobber))
  /\ [][ct_pc = "constructed" =>
          IF clobber
          THEN ct_pc' = "running" /\ pc' = "run" /\ saved' = saved
          ELSE IF saved = "good"
          THEN ct_pc' = "loaded" /\ pc' = "idle" /\ saved' = saved
          ELSE ct_pc' = "running" /\ pc' = "run"]_vars

\* run has been entered under clobber = True although a loadable saved model
\* exists
C22_Witness ==
  /\ ct_pc = "running"
  /\ pc = "run"
  /\ clobber
  /\ saved = "good"

\* the model is a short cadence one whose constructor has returned
ShortCadenceModel ==
  /\ Lower(Get(kwargs, "cadence", "lc")) = "sc"
  /\ ct_pc \in {"constructed", "running"}

\* C23: for a short cadence model optimize_gp is False, update_gp is never
\* reached during its run, and kernel_params hold, from construction to the
\* end of run, the caller's kernel_params when the keyword is given and the
\* long cadence parent's otherwise.
C23_ShortCadenceKeepsKernelParams ==
  ShortCadenceModel =>
    /\ optimize_gp = FALSE
    /\ pc # "update_gp"
    /\ kernel_params = Get(kwargs, "kernel_params", ParentKernelParams)

\* C27: the long cadence parent built for a short cadence model never runs
\* _setup or run: its load_model loads the saved model or raises; when it
\* raises, the construction of the short cadence model fails before any
\* step of its own run; and a parent file that exists but fails to load has
\* been renamed to .bad by the time of the raise.
C27_ParentNeverDetrends ==
  /\ [](parent # "ran")
  /\ [](parent \in {"raised", "unloadable"} =>
          (ct_pc = "raised" /\ pc = "idle" /\ exc # "none"))
  /\ [][(ct_pc = "new" /\ parent' # parent) =>
          /\ parent' \in {"raised", "loaded", "unloadable"}
          /\ (parent' = "loaded") = (parent' # "raised" /\ parent_saved = "good")
          /\ (parent' = "unloadable" /\ parent_saved = "corrupt")
               => parent_saved' = "bad"
          /\ (parent' = "unloadable" /\ parent_saved = "absent")
               => parent_saved' = "absent"]_vars

\* the parent's file existed, failed to load and was renamed, and the short
\* cadence constructor raised
C27_Witness ==
  /\ parent = "unloadable"
  /\ parent_saved = "bad"
  /\ ct_pc = "raised"
  /\ Lower(Get(kwargs, "cadence", "lc")) = "sc"

(***************************************************************************)
(* The value of optimize_lambda in closed form (checked under SpecOL)      *)
(***************************************************************************)
\* every entry of the validation matrix is positive (and finite)
PositiveMatrix ==
  \A n \in DOMAIN validation : \A k \in Rows : validation[n][k] > 0

\* min over the columns n of r_n
SmallestColTolIdx == SetMin({ColTolIdx(n) : n \in DOMAIN validation})

\* C24: for every validation matrix with positive finite entries,
\* optimize_lambda returns min(max over the columns n of m_n, min over the
\* columns n of r_n), m_n being the first index of the minimum of column n
\* and r_n the largest index within the tolerance leps of that minimum; the
\* running maximum and minimum start at 0 and at the grid length on every
\* call, so the value depends on the matrix of that call alone.
C24_ReturnsMinOfMaxmMinr ==
  /\ (Returned /\ PositiveMatrix)
       => ol_ret = Min2(LargestColMinIdx, SmallestColTolIdx)
  /\ (ol_pc = "loop" /\ ol_n = 0) => (maxm = 0 /\ minr = NLam)

\* a second call for the segment has returned the smallest r, below the
\* largest m and below the value the call before it returned
C24_Witness ==
  /\ Returned
  /\ PositiveMatrix
  /\ ol_prev # None
  /\ ol_ret < ol_prev
  /\ ol_ret = SmallestColTolIdx
  /\ ol_ret < LargestColMinIdx

(***************************************************************************)
(* The outlier mask after a pass of get_outliers (checked under SpecGO)    *)
(***************************************************************************)
\* a pass of the loop body of get_outliers (lines 293-306) has been made
PassMade == go_steps >= 1

\* C25: after every pass of get_outliers, outmask is exactly the array of
\* cadences flagged in that pass, the one the pass appends to its list: a
\* cadence that outmask held from an earlier pass or an earlier PLD order
\* and that this pass did not flag is no longer in outmask.
C25_OutmaskReplaced ==
  /\ [](PassMade => outmask = Last(go_list))
  /\ [][go_steps' = go_steps + 1 =>
          \A c \in Range(outmask) \ Range(Last(go_list')) :
            c \notin Range(outmask')]_vars

\* two passes have been made; a cadence the call started with and a cadence
\* the first pass flagged are both gone from outmask
C25_Witness ==
  /\ go_steps >= 2
  /\ Range(go_list[2]) \ Range(outmask) # {}
  /\ Range(go_list[3]) \ Range(outmask) # {}

StrictlyIncreasing(q) == \A i, j \in DOMAIN q : i < j => q[i] < q[j]

\* C28: with strictly increasing time stamps, after every pass of
\* get_outliers outmask has no cadence of nanmask or badmask, holds indices
\* of the full time series only, and is strictly increasing (so without
\* duplicates); get_outliers leaves nanmask, badmask and transitmask as
\* they were.
C28_OutmaskWellFormed ==
  /\ [](PassMade =>
          /\ Range(outmask) \cap (Range(nanmask) \cup Range(badmask)) = {}
          /\ Range(outmask) \subseteq Cad
          /\ StrictlyIncreasing(outmask))
  /\ [][/\ nanmask' = nanmask
        /\ badmask' = badmask
        /\ transitmask' = transitmask]_vars

\* a pass has flagged two cadences of a light curve whose first cadence is
\* in nanmask, so that positions and cadence indices differ
C28_Witness ==
  /\ PassMade
  /\ StrictlyIncreasing(time)
  /\ nanmask = <<0>>
  /\ Len(outmask) >= 2
  /\ outmask[1] # 0

(***************************************************************************)
(* The regularisation table during run (checked under Spec)                *)
(***************************************************************************)
\* the cross-validation of order lam_idx is over, without error
CrossValidated == OrderFinished /\ lam_idx >= 0

\* the values a finished cross-validation leaves in a cell
CellValues == Range(lambda_arr) \cup {NegInf}

\* C29: at every point of run -1 <= lam_idx <= pld_order - 1, and lam_idx
\* changes only by +1, once per order; after the cross-validation of order
\* n every cell lam[b][k] with k <= n is a value of lambda_arr or -infinity
\* and every cell with k > n is still None; after a run that ends without
\* error no cell is None.
C29_LamFilledUpToOrder ==
  /\ [](-1 <= lam_idx /\ lam_idx <= pld_order - 1)
  /\ [][lam_idx' # lam_idx =>
          (lam_idx' = lam_idx + 1 /\ pc = "order" /\ pc' = "get_outliers")]_vars
  /\ [](CrossValidated =>
          \A b \in DOMAIN lam : \A k \in DOMAIN lam[b] :
            IF k <= lam_idx THEN lam[b][k] \in CellValues
            ELSE lam[b][k] = None)
  /\ [](pc = "saved" =>
          \A b \in DOMAIN lam : \A k \in DOMAIN lam[b] : lam[b][k] # None)

\* the first of two orders is over: some segment was skipped, another has a
\* value of the grid, and the cells of the second order are still None
C29_Witness ==
  /\ pc = "order"
  /\ lam_idx = 0
  /\ pld_order = 2
  /\ \E b \in DOMAIN lam : lam[b][0] = NegInf /\ lam[b][1] = None
  /\ \E b \in DOMAIN lam : lam[b][0] \in Range(lambda_arr) /\ lam[b][1] = None

\* the orders for which cv_precompute hands A[n] and B[n] to cv_compute
Precomputed == {n \in 0 .. (pld_order - 1) : cv_precompute(pld_order, lam_idx)[n]}

\* C30: whenever cv_compute is evaluated for a segment b during run, every
\* order n whose cell lam[b][n] is not None has A[n] and B[n] computed: no
\* product of a multiplier with a missing matrix is ever formed, the cells
\* that are not None are those of the orders n <= lam_idx, and these are
\* the orders cv_precompute fills.
C30_ComputeUsesPrecomputedOrders ==
  /\ [](exc # "TypeError")
  /\ [][(cv_terms' # cv_terms /\ cv_terms' # <<>>) =>
          /\ DOMAIN cv_terms' = Precomputed
          /\ \A n \in DOMAIN lam'[cv_b] :
               (lam'[cv_b][n] # None) = (n <= lam_idx)
          /\ Precomputed = {n \in DOMAIN lam[cv_b] : n <= lam_idx}]_vars

\* the sum of line 259 has been formed at the second order, over both orders
C30_Witness ==
  /\ lam_idx = 1
  /\ pld_order > lam_idx
  /\ DOMAIN cv_terms = {0, 1}
  /\ cv_evaluated # {}

(***************************************************************************)
(* The starting points of GetKernelParams (checked under SpecStart)        *)
(***************************************************************************)
Within(v, b) == b[1] <= v /\ v <= b[2]

\* lower <= upper for the three parameters
BoundsOrdered == \A j \in 1 .. 3 : rs_bounds[j][1] <= rs_bounds[j][2]

\* C26: with lower <= upper for all three parameters, every starting point
\* handed to the minimiser lies within the bounds in all three: a jittered
\* value outside its bounds is never kept once the loop has moved on, and
\* the value taken when the resample limit is reached is a uniform draw,
\* which lies inside the bounds.
C26_StartWithinBounds ==
  /\ []((rs_pc = "handed" /\ BoundsOrdered) =>
          \A j \in 1 .. 3 : Within(rs_iguess[j], rs_bounds[j]))
  /\ []((rs_pc = "loop" /\ BoundsOrdered) =>
          \A j \in 1 .. (rs_j - 1) : Within(rs_iguess[j], rs_bounds[j]))
  /\ [][(rs_pc = "loop" /\ rs_j <= 3 /\ rs_tries = MaxTries /\ BoundsOrdered
           /\ Outside(rs_iguess[rs_j], rs_bounds[rs_j])) =>
          /\ rs_iguess'[rs_j] \in Uniform(rs_bounds[rs_j])
          /\ Within(rs_iguess'[rs_j], rs_bounds[rs_j])
          /\ rs_j' = rs_j + 1]_vars

\* a starting point has been handed over whose first component is a jitter
\* of the guess and whose last one is the uniform draw taken at the limit
C26_Witness ==
  /\ rs_pc = "handed"
  /\ rs_iguess[1] \in Jitters(rs_guess[1])
  /\ rs_iguess[3] \notin Jitters(rs_guess[3])
  /\ rs_iguess[3] \in Uniform(rs_bounds[3])

=============================================================================
